---- MODULE Spec2Model ----
(***************************************************************************)
(* Model of the face perception pipeline of src/perception/human_face.py   *)
(* (class VisionPerceptor) and of the data model of src/affect/state.py.   *)
(*                                                                         *)
(* Units.  Probabilities and min_confidence are integers in percent        *)
(* (0.30 is 30): FER rounds its scores to two decimals.  Valence, arousal  *)
(* and dominance are integers in tenths (0.8 is 8).  The relative box of   *)
(* the legacy MediaPipe API is an integer numerator over RelDen.           *)
(***************************************************************************)
EXTENDS Integers, Sequences, FiniteSets, TLC

VARIABLES
    phase,            \* position of the caller: "new", "idle", "returned", "failed", "dead", or "fn" (pure-function runs)
    env,              \* what the constructor met (its arguments and the outcome of each initialisation)
    use_mediapipe,    \* self.use_mediapipe
    use_new_api,      \* self.use_new_api: "unset" (attribute never assigned), "True" or "False"
    use_landmarks,    \* self.use_landmarks
    face_landmarker,  \* self.face_landmarker: "None" or "landmarker"
    min_confidence,   \* self.min_confidence, in percent
    cap,              \* self.cap: "None", "opened" or "unopened" (a VideoCapture that failed to open)
    capOpens,         \* number of cv2.VideoCapture(...) objects created so far
    capReleases,      \* number of cap.release() calls made on a capture object so far
    op,               \* the operation of the current or last call
    afterRelease,     \* whether the call before the current one was release()
    args,             \* the inputs of the call
    ret,              \* what the call returned or raised
    calls,            \* the collaborator calls the call made, in order
    heap              \* the objects of the last result that are held by reference

vars == <<phase, env, use_mediapipe, use_new_api, use_landmarks, face_landmarker,
          min_confidence, cap, capOpens, capReleases, op, afterRelease, args, ret, calls,
          heap>>

fields == <<use_mediapipe, use_new_api, use_landmarks, face_landmarker, min_confidence>>

(***************************************************************************)
(* Bounds of the model.                                                    *)
(***************************************************************************)
MaxFaces == 2        \* most boxes a detector reports on one frame
MaxCapOps == 2       \* most capture objects created in one run
FrameW == 4          \* width of the small frame handed to the locator
FrameH == 3          \* height of the small frame handed to the locator
RawSlack == 2        \* how far beyond the frame a raw detector box may start or extend
RelDen == 4          \* denominator of the legacy API's relative coordinates

(***************************************************************************)
(* Python helpers.                                                         *)
(***************************************************************************)
Max(a, b) == IF a >= b THEN a ELSE b
Min(a, b) == IF a <= b THEN a ELSE b

\* int(n / d) for d > 0: Python's int() truncates toward zero
IntTrunc(n, d) == IF n >= 0 THEN n \div d ELSE -((-n) \div d)

SeqsUpTo(S, n) == UNION {[1..k -> S] : k \in 0..n}

(***************************************************************************)
(* The emotion vocabulary and the two emotion-to-VAD tables.               *)
(***************************************************************************)
\* the labels of the classifier's result map, in the order the map holds them
FER_LABELS == <<"angry", "disgust", "fear", "happy", "sad", "surprise", "neutral">>

Labels == {FER_LABELS[i] : i \in 1..Len(FER_LABELS)}

\* VisionPerceptor.EMOTION_TO_VAD, keyed by the label string
EMOTION_TO_VAD ==
    "happy"    :> <<8, 7, 5>>    @@
    "sad"      :> <<-7, 3, -3>>  @@
    "angry"    :> <<-8, 9, 7>>   @@
    "neutral"  :> <<0, 4, 0>>    @@
    "surprise" :> <<4, 9, -2>>   @@
    "fear"     :> <<-6, 8, -5>>  @@
    "disgust"  :> <<-6, 5, 2>>

\* the default of the two .get(...) lookups in perceive and perceive_all_faces
VAD_DEFAULT == <<0, 5, 0>>

\* mutant of VadLookup: an unknown label falls back to the 'neutral' entry
VadLookupNeutralDefault(label) ==
    IF label \in DOMAIN EMOTION_TO_VAD THEN EMOTION_TO_VAD[label] ELSE EMOTION_TO_VAD["neutral"]

\* mutant of VadLookup: valence and arousal change places
VadLookupSwapped(label) ==
    IF label \in DOMAIN EMOTION_TO_VAD
    THEN <<EMOTION_TO_VAD[label][2], EMOTION_TO_VAD[label][1], EMOTION_TO_VAD[label][3]>>
    ELSE VAD_DEFAULT

\* self.EMOTION_TO_VAD.get(dominant_emotion, (0.0, 0.5, 0.0))
VadLookup(label) ==
    IF label \in DOMAIN EMOTION_TO_VAD THEN EMOTION_TO_VAD[label] ELSE VAD_DEFAULT

\* class EmotionCategory(Enum): the members, by value
EmotionCategory == {"happy", "sad", "angry", "neutral", "surprise", "fear", "disgust"}

\* a Python value used as a key: a str, or the EmotionCategory member with that value
StrKey(v) == [type |-> "str", value |-> v]
EnumKey(v) == [type |-> "EmotionCategory", value |-> v]

\* affect.state.EMOTION_TO_VAD, keyed by the EmotionCategory member
AFFECT_EMOTION_TO_VAD ==
    EnumKey("happy")    :> <<8, 7, 5>>    @@
    EnumKey("sad")      :> <<-7, 3, -3>>  @@
    EnumKey("angry")    :> <<-8, 9, 7>>   @@
    EnumKey("neutral")  :> <<0, 4, 0>>    @@
    EnumKey("surprise") :> <<4, 9, -2>>   @@
    EnumKey("fear")     :> <<-6, 8, -5>>  @@
    EnumKey("disgust")  :> <<-6, 5, 2>>

\* mutant of emotion_to_vad: an unknown key falls back to the NEUTRAL entry
EmotionToVadNeutralDefault(emotion) ==
    IF emotion \in DOMAIN AFFECT_EMOTION_TO_VAD
    THEN AFFECT_EMOTION_TO_VAD[emotion]
    ELSE AFFECT_EMOTION_TO_VAD[EnumKey("neutral")]

\* affect.state.emotion_to_vad(emotion)
emotion_to_vad(emotion) ==
    IF emotion \in DOMAIN AFFECT_EMOTION_TO_VAD
    THEN AFFECT_EMOTION_TO_VAD[emotion]
    ELSE <<0, 5, 0>>

(***************************************************************************)
(* Return values.  Every value a call returns is a record with a kind.     *)
(***************************************************************************)
None == [kind |-> "None"]
Raise(exc) == [kind |-> "raise", exc |-> exc]
NoRet == [kind |-> "pending"]

\* the arguments or the environment of a call that has none
NoEnv == [none |-> TRUE]

\* objects held by reference: the Percept the caller holds, the emotions map, and the
\* entry of the classifier's result list; NoHeap when none is tracked
NoObj == [kind |-> "none"]
Ref(id) == [kind |-> "ref", id |-> id]
NoHeap == [percept |-> NoObj, emotions |-> NoObj, result |-> NoObj]

\* mutant of PostInitOk: the bounds themselves are rejected
PostInitOkStrict(v, a, d, confidence) ==
    /\ -10 < v /\ v < 10
    /\ 0 < a /\ a < 10
    /\ -10 < d /\ d < 10
    /\ 0 < confidence /\ confidence < 100

\* Percept.__post_init__: the four range assertions
PostInitOk(v, a, d, confidence) ==
    /\ -10 <= v /\ v <= 10
    /\ 0 <= a /\ a <= 10
    /\ -10 <= d /\ d <= 10
    /\ 0 <= confidence /\ confidence <= 100

\* Percept(source=..., valence_hint=v, arousal_hint=a, dominance_hint=d,
\*         confidence=confidence, metadata=metadata); the timestamp is left out
Percept(source, v, a, d, confidence, metadata) ==
    IF PostInitOk(v, a, d, confidence)
    THEN [kind |-> "Percept", source |-> source, valence_hint |-> v,
          arousal_hint |-> a, dominance_hint |-> d, confidence |-> confidence,
          metadata |-> metadata]
    ELSE Raise("AssertionError")

(***************************************************************************)
(* Face Locator.  A box is <<x, y, width, height>>.                        *)
(***************************************************************************)
\* mutant of TasksBox: the width is limited against the raw origin, not the clamped one
TasksBoxRawOrigin(bbox, w, h) ==
    <<Max(0, bbox.origin_x), Max(0, bbox.origin_y),
      Min(bbox.width, w - bbox.origin_x), Min(bbox.height, h - bbox.origin_y)>>

\* lines 293-305: one detection of the tasks API, bbox = [origin_x, origin_y, width, height]
TasksBox(bbox, w, h) ==
    LET x0 == bbox.origin_x
        y0 == bbox.origin_y
        width0 == bbox.width
        height0 == bbox.height
        x == Max(0, x0)
        y == Max(0, y0)
        width == Min(width0, w - x)
        height == Min(height0, h - y)
    IN  <<x, y, width, height>>

\* lines 314-326: one detection of the legacy API, bbox = [xmin, ymin, width, height],
\* each a numerator over RelDen
LegacyBox(bbox, w, h) ==
    LET x0 == IntTrunc(bbox.xmin * w, RelDen)
        y0 == IntTrunc(bbox.ymin * h, RelDen)
        width0 == IntTrunc(bbox.width * w, RelDen)
        height0 == IntTrunc(bbox.height * h, RelDen)
        x == Max(0, x0)
        y == Max(0, y0)
        width == Min(width0, w - x)
        height == Min(height0, h - y)
    IN  <<x, y, width, height>>

\* _detect_faces_mediapipe(frame): detections is what the detector reports on the frame
DetectFacesMediapipe(newApi, detections, w, h) ==
    IF newApi = "True"
    THEN [i \in 1..Len(detections) |-> TasksBox(detections[i], w, h)]
    ELSE [i \in 1..Len(detections) |-> LegacyBox(detections[i], w, h)]

\* _detect_faces_haar(frame): detections is what detectMultiScale reports, <<x, y, w, h>> each
DetectFacesHaar(detections, w, h) ==
    [i \in 1..Len(detections) |-> <<detections[i][1], detections[i][2],
                                    detections[i][3], detections[i][4]>>]

\* lines 461-465 and 581-585: dispatch on self.use_mediapipe
DetectFaces(useMp, newApi, detections, w, h) ==
    IF useMp THEN DetectFacesMediapipe(newApi, detections, w, h)
    ELSE DetectFacesHaar(detections, w, h)

\* The raw boxes a detector can report on a w x h frame.  MediaPipe regresses its box,
\* so the origin may lie outside the frame on either side and the box may extend
\* beyond it; sizes are not negative.
RawTasks(w, h) ==
    [origin_x : -RawSlack..(w + RawSlack), origin_y : -RawSlack..(h + RawSlack),
     width : 0..(w + RawSlack), height : 0..(h + RawSlack)]

RawLegacy ==
    [xmin : -RawSlack..(RelDen + RawSlack), ymin : -RawSlack..(RelDen + RawSlack),
     width : 0..(RelDen + RawSlack), height : 0..(RelDen + RawSlack)]

\* detectMultiScale slides its window inside the image: its boxes lie in the frame
RawHaar(w, h) ==
    {b \in (0..w) \X (0..h) \X (1..w) \X (1..h) : b[1] + b[3] <= w /\ b[2] + b[4] <= h}

(***************************************************************************)
(* Construction: VisionPerceptor.__init__.                                 *)
(***************************************************************************)
\* model_candidates (lines 141-145) and landmarker_candidates (lines 187-190), by position
ModelCandidates == {1, 2, 3}
LandmarkerCandidates == {1, 2}

\* thresholds a caller passes: the default 0.3, and the 0.2 of visualize_all_faces
MinConfidences == {30, 20}

\* What one construction meets: the arguments, whether mediapipe imported, how the
\* legacy FaceDetection initialisation ends ("ok", "AttributeError" when the solutions
\* API is missing, "raise" for any other exception), which candidate files exist, and
\* how the tasks-API detector, the landmarker and FER constructors end.
CtorEnvs ==
    [use_mediapipe : BOOLEAN, use_landmarks : BOOLEAN, min_confidence : MinConfidences,
     MEDIAPIPE_AVAILABLE : BOOLEAN,
     legacy : {"ok", "AttributeError", "raise"},
     model_files : SUBSET ModelCandidates,
     tasks_ctor : {"ok", "raise"},
     landmarker_files : SUBSET LandmarkerCandidates,
     landmarker_ctor : {"ok", "raise"},
     fer : {"ok", "raise"}]

\* lines 147-151: the first candidate that exists, 0 for model_path = None
FirstExisting(files) ==
    IF files = {} THEN 0 ELSE CHOOSE c \in files : \A d \in files : c <= d

\* mutant of InitDetector: a failed tasks-API initialisation leaves use_mediapipe set
InitDetectorKeepsMediapipe(e) ==
    LET useMp == e.use_mediapipe /\ e.MEDIAPIPE_AVAILABLE
    IN  IF ~useMp
        THEN [raised |-> FALSE, use_mediapipe |-> FALSE, use_new_api |-> "False"]
        ELSE IF e.legacy = "ok"
        THEN [raised |-> FALSE, use_mediapipe |-> TRUE, use_new_api |-> "unset"]
        ELSE IF e.legacy = "raise"
        THEN [raised |-> TRUE, use_mediapipe |-> TRUE, use_new_api |-> "unset"]
        ELSE IF FirstExisting(e.model_files) # 0 /\ e.tasks_ctor = "ok"
        THEN [raised |-> FALSE, use_mediapipe |-> TRUE, use_new_api |-> "True"]
        ELSE [raised |-> FALSE, use_mediapipe |-> TRUE, use_new_api |-> "False"]

\* lines 126-180: the face detector part; result [raised, use_mediapipe, use_new_api]
InitDetector(e) ==
    LET useMp == e.use_mediapipe /\ e.MEDIAPIPE_AVAILABLE
    IN  IF ~useMp
        THEN [raised |-> FALSE, use_mediapipe |-> FALSE, use_new_api |-> "False"]
        ELSE IF e.legacy = "ok"
        THEN [raised |-> FALSE, use_mediapipe |-> TRUE, use_new_api |-> "unset"]
        ELSE IF e.legacy = "raise"
        THEN [raised |-> TRUE, use_mediapipe |-> TRUE, use_new_api |-> "unset"]
        ELSE IF FirstExisting(e.model_files) # 0 /\ e.tasks_ctor = "ok"
        THEN [raised |-> FALSE, use_mediapipe |-> TRUE, use_new_api |-> "True"]
        ELSE [raised |-> FALSE, use_mediapipe |-> FALSE, use_new_api |-> "False"]

\* mutant of InitLandmarker: a landmarker whose constructor raised leaves the flag set
InitLandmarkerKeepsFlag(e) ==
    LET useLm == e.use_landmarks /\ e.MEDIAPIPE_AVAILABLE
    IN  IF useLm /\ FirstExisting(e.landmarker_files) # 0
        THEN [use_landmarks |-> TRUE,
              face_landmarker |-> IF e.landmarker_ctor = "ok" THEN "landmarker" ELSE "None"]
        ELSE [use_landmarks |-> FALSE, face_landmarker |-> "None"]

\* lines 182-221: the landmarker part; result [use_landmarks, face_landmarker]
InitLandmarker(e) ==
    LET useLm == e.use_landmarks /\ e.MEDIAPIPE_AVAILABLE
    IN  IF useLm /\ FirstExisting(e.landmarker_files) # 0 /\ e.landmarker_ctor = "ok"
        THEN [use_landmarks |-> TRUE, face_landmarker |-> "landmarker"]
        ELSE [use_landmarks |-> FALSE, face_landmarker |-> "None"]

\* __init__ as a whole: the fields it leaves and what it returns or raises
Ctor(e) ==
    LET det == InitDetector(e)
        lm == InitLandmarker(e)
    IN  IF det.raised
        THEN [ret |-> Raise("Exception"), use_mediapipe |-> det.use_mediapipe,
              use_new_api |-> det.use_new_api,
              use_landmarks |-> e.use_landmarks /\ e.MEDIAPIPE_AVAILABLE,
              face_landmarker |-> "None"]
        ELSE [ret |-> IF e.fer = "ok" THEN None ELSE Raise("Exception"),
              use_mediapipe |-> det.use_mediapipe, use_new_api |-> det.use_new_api,
              use_landmarks |-> lm.use_landmarks, face_landmarker |-> lm.face_landmarker]

\* SpecCtor: one construction, from every environment
InitCtor ==
    /\ phase = "new"
    /\ env \in CtorEnvs
    /\ use_mediapipe = FALSE /\ use_new_api = "unset" /\ use_landmarks = FALSE
    /\ face_landmarker = "None" /\ min_confidence = 30
    /\ cap = "None" /\ capOpens = 0 /\ capReleases = 0
    /\ op = "none" /\ afterRelease = FALSE /\ args = NoEnv /\ ret = NoRet /\ calls = <<>>
    /\ heap = NoHeap

Construct ==
    /\ phase = "new"
    /\ LET c == Ctor(env)
       IN  /\ use_mediapipe' = c.use_mediapipe
           /\ use_new_api' = c.use_new_api
           /\ use_landmarks' = c.use_landmarks
           /\ face_landmarker' = c.face_landmarker
           /\ ret' = c.ret
           /\ phase' = IF c.ret = None THEN "idle" ELSE "failed"
    /\ min_confidence' = env.min_confidence
    /\ cap' = "None"
    /\ op' = "__init__"
    /\ UNCHANGED <<heap, env, capOpens, capReleases, afterRelease, args, calls>>

NextCtor == Construct

SpecCtor == InitCtor /\ [][NextCtor]_vars

(***************************************************************************)
(* Claims about construction (under SpecCtor).                             *)
(***************************************************************************)
Constructed == op = "__init__"

\* the primary detector was asked for and importable
PrimaryRequested(e) == e.use_mediapipe /\ e.MEDIAPIPE_AVAILABLE

\* the ways the primary detector's initialisation fails: the legacy constructor raises
\* an exception of any other type, or the legacy API is missing and then no model file
\* exists or the tasks-API constructor raises
PrimaryFails(e) ==
    \/ e.legacy = "raise"
    \/ e.legacy = "AttributeError" /\ (e.model_files = {} \/ e.tasks_ctor = "raise")

\* C11: construction never raises because of the primary face detector: whichever way
\* its initialisation fails, the constructor records use_mediapipe = false and, the
\* emotion classifier initialising, returns
PrimaryFailureNeverRaises ==
    (Constructed /\ PrimaryRequested(env) /\ PrimaryFails(env)) =>
        /\ use_mediapipe = FALSE
        /\ env.fer = "ok" => ret = None

\* the landmark model is missing, or its initialisation raises
LandmarkerFails(e) == e.landmarker_files = {} \/ e.landmarker_ctor = "raise"

max_dimension == 1280

\* m without its factors of two
RECURSIVE OddPart(_)
OddPart(m) == IF m % 2 = 0 THEN OddPart(m \div 2) ELSE m

\* whether scale = max_dimension / m is a binary fraction, which the float holds exactly
ScaleExact(m) == max_dimension % OddPart(m) = 0

\* int(x * scale) with scale = max_dimension / m, both in double precision: the exact
\* quotient truncated, except that where scale is rounded and the exact product is an
\* integer the float product may fall just below it (slip), e.g.
\* int(2139 * (1280 / 2139)) = 1279 and int(161 * (1280 / 1610)) = 127
ScaledDim(x, m, slip) ==
    LET q == IntTrunc(x * max_dimension, m)
    IN  IF slip /\ (x * max_dimension) % m = 0 /\ ~ScaleExact(m) THEN q - 1 ELSE q

\* (new_w, new_h) of lines 257-259
ResizeTarget(w, h, slipW, slipH) ==
    <<ScaledDim(w, Max(h, w), slipW), ScaledDim(h, Max(h, w), slipH)>>

Frame(w, h) == [kind |-> "frame", w |-> w, h |-> h]

\* cv2.resize(frame, dsize, interpolation=cv2.INTER_AREA): OpenCV rejects an empty
\* target size with cv2.error
Resize(dsize) ==
    IF dsize[1] <= 0 \/ dsize[2] <= 0 THEN Raise("cv2.error") ELSE Frame(dsize[1], dsize[2])

\* _preprocess_frame(frame) on a frame of w x h pixels: the frame it returns, or the
\* exception of the resize
PreprocessFrameWith(w, h, slipW, slipH) ==
    IF Max(h, w) > max_dimension
    THEN Resize(ResizeTarget(w, h, slipW, slipH))
    ELSE Frame(w, h)

\* the dimensions <<w, h>> of the frame _preprocess_frame returns in the pipeline
PreprocessFrame(w, h) ==
    LET frame == PreprocessFrameWith(w, h, FALSE, FALSE) IN <<frame.w, frame.h>>

\* the length of seq[lo:hi] for a sequence of n elements (Python slice bounds)
SliceBound(i, n) == IF i < 0 THEN Max(i + n, 0) ELSE Min(i, n)
SliceLen(lo, hi, n) == Max(0, SliceBound(hi, n) - SliceBound(lo, n))

\* face_img = frame[y:y+h, x:x+w] (lines 483 and 604): whether the crop has no pixel
CropEmpty(box, w, h) ==
    \/ SliceLen(box[2], box[2] + box[4], h) = 0
    \/ SliceLen(box[1], box[1] + box[3], w) = 0

\* mutant of Truncate: the limit is not applied
TruncateNot(faces, max_faces) == faces

\* faces[:max_faces] (line 592)
Truncate(faces, max_faces) ==
    SubSeq(faces, 1, SliceBound(max_faces, Len(faces)))

\* Results of the collaborators.  The classifier (FER.detect_emotions) raises, returns
\* an empty list, or returns a list whose first entry holds the emotions map; the
\* landmark model raises or reports n faces.
ClsRaise == [kind |-> "raise"]
ClsEmpty == [kind |-> "empty"]
ClsFaces(emotions) == [kind |-> "faces", emotions |-> emotions]
LmRaise == [kind |-> "raise", n |-> 0]
LmFaces(n) == [kind |-> "faces", n |-> n]
LmNotRun == [kind |-> "notrun", n |-> 0]
LmOutcomes == {LmRaise} \cup {LmFaces(n) : n \in 0..MaxFaces}

\* a call of a collaborator, as the call log keeps it
Call(fn, arg) == [fn |-> fn, arg |-> arg]

\* mutant of AnalyzeFaceLandmarks: without the except clause, the landmark model's
\* exception leaves the function
AnalyzeFaceLandmarksUncaught(lmOut, max_faces) ==
    IF ~use_landmarks \/ face_landmarker = "None" THEN None
    ELSE IF lmOut.kind = "raise" THEN Raise("Exception")
    ELSE IF lmOut.n = 0 THEN None
    ELSE [kind |-> "list",
          items |-> [k \in 1..Min(lmOut.n, max_faces) |->
                        [kind |-> "landmarks", face_index |-> k - 1]]]

\* mutant of AnalyzeFaceLandmarks: every face the landmark model reports gets an entry
AnalyzeFaceLandmarksUncapped(lmOut, max_faces) ==
    IF ~use_landmarks \/ face_landmarker = "None" THEN None
    ELSE IF lmOut.kind = "raise" THEN None
    ELSE IF lmOut.n = 0 THEN None
    ELSE [kind |-> "list",
          items |-> [k \in 1..lmOut.n |-> [kind |-> "landmarks", face_index |-> k - 1]]]

\* _analyze_face_landmarks(frame, max_faces): None, or the list of per-face entries
AnalyzeFaceLandmarks(lmOut, max_faces) ==
    IF ~use_landmarks \/ face_landmarker = "None" THEN None
    ELSE IF lmOut.kind = "raise" THEN None
    ELSE IF lmOut.n = 0 THEN None
    ELSE [kind |-> "list",
          items |-> [k \in 1..Min(lmOut.n, max_faces) |->
                        [kind |-> "landmarks", face_index |-> k - 1]]]

\* mutant of DominantEmotion: max(emotions) without the key, the greatest label string
GreatestLabel(emotions) == "surprise"

\* max(emotions, key=emotions.get): the first key, in the map's order, holding the
\* greatest value
DominantEmotion(emotions) ==
    LET best == CHOOSE m \in {emotions[l] : l \in Labels} :
                    \A l \in Labels : emotions[l] <= m
        i == CHOOSE j \in 1..Len(FER_LABELS) :
                 /\ emotions[FER_LABELS[j]] = best
                 /\ \A k \in 1..(j - 1) : emotions[FER_LABELS[k]] # best
    IN  FER_LABELS[i]

\* "mediapipe" if self.use_mediapipe else "haar" (lines 529 and 647)
DetectorName == IF use_mediapipe THEN "mediapipe" ELSE "haar"

\* mutant of DetectCall: the dispatch follows use_new_api instead of use_mediapipe
DetectCallByApi ==
    Call(IF use_new_api = "True" THEN "detect_faces_mediapipe" ELSE "detect_faces_haar", 0)

\* "if self.use_mediapipe: faces = self._detect_faces_mediapipe(frame) else:
\* faces = self._detect_faces_haar(frame)" (lines 462-465 and 582-585): the call made
DetectCall ==
    Call(IF use_mediapipe THEN "detect_faces_mediapipe" ELSE "detect_faces_haar", 0)

\* mutant of LandmarkCalls: the landmark extractor is called once for every face
LandmarkCallsPerFace(max_faces) ==
    IF use_landmarks THEN [i \in 1..max_faces |-> Call("landmarks", 1)] ELSE <<>>

\* "if self.use_landmarks: ... self._analyze_face_landmarks(frame, max_faces=...)"
\* (lines 476-477 and 597-598): the calls made
LandmarkCalls(max_faces) ==
    IF use_landmarks THEN <<Call("landmarks", max_faces)>> ELSE <<>>

\* mutant of PrimaryFace: the last located face is taken
LastFace(faces) == faces[Len(faces)]

\* "x, y, w, h = faces[0]" (line 472)
PrimaryFace(faces) == faces[1]

\* mutant of BelowThreshold: the comparison made inclusive
BelowOrAtThreshold(confidence) == confidence <= min_confidence

\* confidence < self.min_confidence (lines 513 and 629)
BelowThreshold(confidence) == confidence < min_confidence

\* lines 504-549 of perceive: from the classifier's first entry to the Percept
SingleTail(emotions, box, numFaces, landmarks_data) ==
    IF DOMAIN emotions = {} THEN Raise("ValueError")   \* max() of an empty map
    ELSE
    LET dominant_emotion == DominantEmotion(emotions)
        confidence == emotions[dominant_emotion]
        vad == VadLookup(dominant_emotion)
        metadata == [dominant_emotion |-> dominant_emotion,
                     all_emotions |-> emotions,
                     bounding_box |-> box,
                     num_faces |-> numFaces,
                     detector |-> DetectorName,
                     landmarks |-> landmarks_data]
    IN  IF BelowThreshold(confidence) THEN None
        ELSE Percept("vision", vad[1], vad[2], vad[3], confidence, metadata)

\* mutant of RetryOnFrame: the full frame is also tried after the classifier raised
RetryOnFrameAlsoAfterRaise(cropOut) == cropOut.kind \in {"empty", "raise"}

\* "if not emotions_list" (line 493): the classifier returned, and returned nothing
RetryOnFrame(cropOut) == cropOut.kind = "empty"

\* mutant of EarlyReturn: the landmark extractor runs before the face check
EarlyReturnAfterLandmarks(value) ==
    [ret |-> value,
     calls |-> <<Call("preprocess", 0), DetectCall, Call("landmarks", 1)>>]

\* "if not faces: return None" (lines 467-469) and "return []" (lines 587-589): value
\* is returned after the preprocessing and the detection alone
EarlyReturn(value) ==
    [ret |-> value, calls |-> <<Call("preprocess", 0), DetectCall>>]

\* lines 458-549 of perceive, on a frame of w x h pixels: the value returned and the
\* collaborator calls made.  detections is what the active detector reports on the
\* frame, lmOut what the landmark model does, cropOut and frameOut what the classifier
\* does on the crop of the first face and on the whole frame.
PerceiveOnFrame(w, h, detections, lmOut, cropOut, frameOut) ==
    LET dims == PreprocessFrame(w, h)
        faces == DetectFaces(use_mediapipe, use_new_api, detections, dims[1], dims[2])
        all_landmarks == AnalyzeFaceLandmarks(lmOut, 1)
        landmarks_data == IF use_landmarks /\ all_landmarks.kind = "list"
                             /\ Len(all_landmarks.items) > 0
                          THEN all_landmarks.items[1] ELSE None
        located == <<Call("preprocess", 0), DetectCall>> \o LandmarkCalls(1)
        head == located \o <<Call("classify_crop", 0)>>
        retry == head \o <<Call("classify_frame", 0)>>
    IN  IF faces = <<>>
        THEN EarlyReturn(None)
        ELSE IF all_landmarks.kind = "raise"     \* line 477 stands in no try block
        THEN [ret |-> all_landmarks, calls |-> located]
        ELSE IF RetryOnFrame(cropOut)
        THEN IF frameOut.kind = "faces"
             THEN [ret |-> SingleTail(frameOut.emotions, PrimaryFace(faces), Len(faces),
                                      landmarks_data),
                   calls |-> retry]
             ELSE [ret |-> None, calls |-> retry]
        ELSE IF cropOut.kind = "raise" THEN [ret |-> None, calls |-> head]
        ELSE [ret |-> SingleTail(cropOut.emotions, PrimaryFace(faces), Len(faces),
                                 landmarks_data),
              calls |-> head]

\* lines 602-668 of perceive_all_faces: the slot of face face_idx (counted from 0)
FaceSlot(face_idx, box, totalFaces, cropOut, all_landmarks_data) ==
    IF cropOut.kind # "faces" THEN None
    ELSE IF DOMAIN cropOut.emotions = {} THEN Raise("ValueError")   \* max() of an empty map
    ELSE
    LET emotions == cropOut.emotions
        dominant_emotion == DominantEmotion(emotions)
        confidence == emotions[dominant_emotion]
        vad == VadLookup(dominant_emotion)
        landmarks_data == IF all_landmarks_data.kind = "list"
                             /\ Len(all_landmarks_data.items) > 0
                             /\ face_idx < Len(all_landmarks_data.items)
                          THEN all_landmarks_data.items[face_idx + 1] ELSE None
        metadata == [dominant_emotion |-> dominant_emotion,
                     all_emotions |-> emotions,
                     bounding_box |-> box,
                     face_index |-> face_idx,
                     total_faces |-> totalFaces,
                     detector |-> DetectorName,
                     landmarks |-> landmarks_data]
    IN  IF BelowThreshold(confidence) THEN None
        ELSE Percept("vision", vad[1], vad[2], vad[3], confidence, metadata)

\* mutant of SlotsOf: after a classifier exception the remaining faces are given up
SlotsAbortAtRaise(faces, cropOuts, all_landmarks_data) ==
    [i \in 1..Len(faces) |->
        IF \E j \in 1..(i - 1) : cropOuts[j].kind = "raise" THEN None
        ELSE FaceSlot(i - 1, faces[i], Len(faces), cropOuts[i], all_landmarks_data)]

\* the for loop of lines 601-668: one slot per kept face, in order
SlotsOf(faces, cropOuts, all_landmarks_data) ==
    [i \in 1..Len(faces) |->
        FaceSlot(i - 1, faces[i], Len(faces), cropOuts[i], all_landmarks_data)]

\* lines 578-670 of perceive_all_faces, on a frame of w x h pixels; cropOuts[i] is what
\* the classifier does on the crop of the i-th kept face
PerceiveAllOnFrame(w, h, detections, lmOut, cropOuts, max_faces) ==
    LET dims == PreprocessFrame(w, h)
        located == DetectFaces(use_mediapipe, use_new_api, detections, dims[1], dims[2])
        faces == Truncate(located, max_faces)
        all_landmarks_data == IF use_landmarks
                              THEN AnalyzeFaceLandmarks(lmOut, Len(faces)) ELSE None
        slots == SlotsOf(faces, cropOuts, all_landmarks_data)
        failed == {i \in 1..Len(faces) : slots[i].kind = "raise"}
        last == IF failed = {} THEN Len(faces)
                ELSE CHOOSE i \in failed : \A j \in failed : i <= j
        head == <<Call("preprocess", 0), DetectCall>> \o LandmarkCalls(Len(faces))
    IN  IF located = <<>>
        THEN EarlyReturn([kind |-> "list", items |-> <<>>])
        ELSE IF all_landmarks_data.kind = "raise"     \* line 598 stands in no try block
        THEN [ret |-> all_landmarks_data, calls |-> head]
        ELSE [ret |-> IF failed = {}
                      THEN [kind |-> "list", items |-> slots]
                      ELSE slots[last],          \* the exception leaves the loop
              calls |-> head \o [i \in 1..last |-> Call("classify_crop", i - 1)]]

(***************************************************************************)
(* SpecFn: the pure functions, each applied to inputs drawn by InitFn.     *)
(***************************************************************************)
MaxRepeat == 2       \* how often the same lookup is repeated

\* keys outside the vocabulary
OtherLabels == {"contempt", "HAPPY", "Happy", "", "unknown", "calm"}

VadInputs ==
    {[table |-> "perception", key |-> StrKey(v)] : v \in Labels \cup OtherLabels}
    \cup {[table |-> "affect", key |-> StrKey(v)] : v \in Labels \cup OtherLabels}
    \cup {[table |-> "affect", key |-> EnumKey(v)] : v \in EmotionCategory}

LocateInputs ==
    {[useMp |-> TRUE, newApi |-> "True", detections |-> <<b>>, w |-> FrameW, h |-> FrameH] :
        b \in RawTasks(FrameW, FrameH)}
    \cup {[useMp |-> TRUE, newApi |-> "unset", detections |-> <<b>>, w |-> FrameW, h |-> FrameH] :
        b \in RawLegacy}
    \cup {[useMp |-> FALSE, newApi |-> "False", detections |-> <<b>>, w |-> FrameW, h |-> FrameH] :
        b \in RawHaar(FrameW, FrameH)}

\* what the landmark model reports, up to one face more than any limit asked for, and
\* the limits perceive (1) and perceive_all_faces (the number of kept faces) pass
LandmarkInputs ==
    [lmOut : {LmRaise} \cup {LmFaces(n) : n \in 0..(MaxFaces + 1)}, max_faces : 0..MaxFaces]

\* field values for Percept(...): inside each range, on its bounds and just outside
PerceptInputs ==
    [v : {-11, -10, 0, 10, 11}, a : {-1, 0, 5, 10, 11},
     d : {-11, -10, 0, 10, 11}, confidence : {-1, 0, 50, 100, 101}]

\* frame widths and heights for _preprocess_frame: tiny, around the limit, common
\* camera sizes, and sizes whose scale is not a binary fraction
FrameDims == {1, 2, 3, 161, 640, 1080, 1279, 1280, 1281, 1610, 1920, 2139, 2560, 3840}
PreprocessInputs == [w : FrameDims, h : FrameDims]

\* the landmark fields a construction can leave
LandmarkerStates == {InitLandmarker(e) : e \in CtorEnvs}

InitFn ==
    /\ phase = "fn"
    /\ env = NoEnv
    /\ use_mediapipe = FALSE /\ use_new_api = "unset" /\ min_confidence = 30
    /\ cap = "None" /\ capOpens = 0 /\ capReleases = 0
    /\ afterRelease = FALSE /\ ret = NoRet /\ calls = <<>> /\ heap = NoHeap
    /\ \/ /\ op = "locate" /\ args \in LocateInputs
          /\ use_landmarks = FALSE /\ face_landmarker = "None"
       \/ /\ op = "vad" /\ args \in VadInputs
          /\ use_landmarks = FALSE /\ face_landmarker = "None"
       \/ /\ op = "landmarks" /\ args \in LandmarkInputs
          /\ \E st \in LandmarkerStates :
                use_landmarks = st.use_landmarks /\ face_landmarker = st.face_landmarker
       \/ /\ op = "percept" /\ args \in PerceptInputs
          /\ use_landmarks = FALSE /\ face_landmarker = "None"
       \/ /\ op = "preprocess" /\ args \in PreprocessInputs
          /\ use_landmarks = FALSE /\ face_landmarker = "None"

unchangedInstance ==
    UNCHANGED <<heap, env, use_mediapipe, use_new_api, use_landmarks, face_landmarker,
                min_confidence, cap, capOpens, capReleases>>

\* the face locator applied to what the detector reports on one frame
ApplyLocate ==
    /\ phase = "fn" /\ op = "locate" /\ ret = NoRet
    /\ ret' = [kind |-> "list",
               items |-> DetectFaces(args.useMp, args.newApi, args.detections, args.w, args.h)]
    /\ UNCHANGED <<phase, op, afterRelease, args, calls>>
    /\ unchangedInstance

\* one more call of an emotion-to-VAD lookup on the same key; calls keeps every result
ApplyVad ==
    /\ phase = "fn" /\ op = "vad" /\ Len(calls) < MaxRepeat
    /\ LET value == IF args.table = "perception"
                    THEN VadLookup(args.key.value)
                    ELSE emotion_to_vad(args.key)
       IN  /\ ret' = [kind |-> "vad", value |-> value]
           /\ calls' = Append(calls, value)
    /\ UNCHANGED <<phase, op, afterRelease, args>>
    /\ unchangedInstance

\* _analyze_face_landmarks applied to what the landmark model does on one frame
ApplyLandmarks ==
    /\ phase = "fn" /\ op = "landmarks" /\ ret = NoRet
    /\ ret' = AnalyzeFaceLandmarks(args.lmOut, args.max_faces)
    /\ UNCHANGED <<phase, op, afterRelease, args, calls>>
    /\ unchangedInstance

\* Percept(source='vision', valence_hint=..., arousal_hint=..., dominance_hint=...,
\*         confidence=...): the dataclass constructor followed by __post_init__
ApplyPercept ==
    /\ phase = "fn" /\ op = "percept" /\ ret = NoRet
    /\ ret' = Percept("vision", args.v, args.a, args.d, args.confidence, None)
    /\ UNCHANGED <<phase, op, afterRelease, args, calls>>
    /\ unchangedInstance

\* _preprocess_frame(frame); calls records the target size handed to cv2.resize
ApplyPreprocess ==
    /\ phase = "fn" /\ op = "preprocess" /\ ret = NoRet
    /\ \E slipW \in BOOLEAN, slipH \in BOOLEAN :
          /\ ret' = PreprocessFrameWith(args.w, args.h, slipW, slipH)
          /\ calls' = IF Max(args.h, args.w) > max_dimension
                      THEN <<Call("resize", ResizeTarget(args.w, args.h, slipW, slipH))>>
                      ELSE <<>>
    /\ UNCHANGED <<phase, op, afterRelease, args>>
    /\ unchangedInstance

NextFn == ApplyLocate \/ ApplyVad \/ ApplyLandmarks \/ ApplyPercept \/ ApplyPreprocess

SpecFn == InitFn /\ [][NextFn]_vars

(***************************************************************************)
(* Claims about the face locator and the affect mapper (under SpecFn).     *)
(***************************************************************************)
Located == phase = "fn" /\ op = "locate" /\ ret.kind = "list"

BoxSizesNonNegative ==
    Located =>
        \A i \in 1..Len(ret.items) : ret.items[i][3] >= 0 /\ ret.items[i][4] >= 0

VadApplied == phase = "fn" /\ op = "vad" /\ ret.kind = "vad"

InVocabulary(a) ==
    \/ a.table = "perception" /\ a.key.value \in Labels
    \/ a.table = "affect" /\ a.key.type = "EmotionCategory"

\* C7: the emotion-to-affect mapping is total and deterministic: repeated calls on one
\* key return the same triple, a key outside the vocabulary gets the default
\* (0.0, 0.5, 0.0), and every triple has valence in [-1,1], arousal in [0,1] and
\* dominance in [-1,1]
VadTotalDeterministic ==
    /\ (phase = "fn" /\ op = "vad" /\ calls # <<>>) => ret.kind = "vad"
    /\ VadApplied =>
        /\ \A i \in 1..Len(calls) : calls[i] = ret.value
        /\ ~InVocabulary(args) => ret.value = <<0, 5, 0>>
        /\ ret.value[1] \in -10..10
        /\ ret.value[2] \in 0..10
        /\ ret.value[3] \in -10..10
        /\ (InVocabulary(args) /\ args.table = "perception")
              => ret.value = EMOTION_TO_VAD[args.key.value]
        /\ (InVocabulary(args) /\ args.table = "affect")
              => ret.value = AFFECT_EMOTION_TO_VAD[args.key]

\* C7 witness: a key outside the vocabulary was looked up twice and got the default
VadDefaultWitness ==
    /\ VadApplied /\ ~InVocabulary(args) /\ Len(calls) = MaxRepeat
    /\ ret.value = <<0, 5, 0>>

Preprocessed == phase = "fn" /\ op = "preprocess" /\ ret # NoRet

\* C25: for every frame of width w >= 1 and height h >= 1, _preprocess_frame returns a
\* frame whose longer dimension is at most 1280; a frame within the limit is returned
\* with its dimensions unchanged, and a larger one with both dimensions scaled by
\* 1280 / max(w, h) and truncated to an integer
PreprocessReturnsBoundedFrame ==
    Preprocessed =>
        /\ ret.kind = "frame"
        /\ Max(ret.w, ret.h) <= max_dimension
        /\ Max(args.w, args.h) <= max_dimension => (ret.w = args.w /\ ret.h = args.h)
        /\ Max(args.w, args.h) > max_dimension =>
              \E slipW \in BOOLEAN, slipH \in BOOLEAN :
                  /\ ret.w = ScaledDim(args.w, Max(args.w, args.h), slipW)
                  /\ ret.h = ScaledDim(args.h, Max(args.w, args.h), slipH)

\* C30: for every frame whose longer dimension exceeds 1280, both dimensions computed
\* for the resize are at least 1
ResizeTargetNonEmpty ==
    (Preprocessed /\ Max(args.w, args.h) > max_dimension) =>
        (calls[1].arg[1] >= 1 /\ calls[1].arg[2] >= 1)

PerceptApplied == phase = "fn" /\ op = "percept" /\ ret # NoRet

\* C23: Percept construction validates ranges: it yields a Percept, holding the values
\* given, if and only if valence_hint is in [-1,1], arousal_hint in [0,1],
\* dominance_hint in [-1,1] and confidence in [0,1], bounds included; otherwise it
\* raises AssertionError and yields no Percept
PerceptValidatesRanges ==
    PerceptApplied =>
        LET inRange == /\ args.v \in -10..10 /\ args.a \in 0..10
                       /\ args.d \in -10..10 /\ args.confidence \in 0..100
        IN  /\ inRange <=> ret.kind = "Percept"
            /\ ~inRange <=> ret = Raise("AssertionError")
            /\ ret.kind = "Percept" =>
                  /\ ret.valence_hint = args.v /\ ret.arousal_hint = args.a
                  /\ ret.dominance_hint = args.d /\ ret.confidence = args.confidence

\* C23 witness: a Percept was constructed with every field on a bound of its range
PerceptOnBoundsWitness ==
    /\ PerceptApplied /\ ret.kind = "Percept"
    /\ args.v = 10 /\ args.a = 0 /\ args.d = -10 /\ args.confidence = 100

\* C29: the two emotion-to-VAD tables agree: the vocabulary of the pipeline's table is
\* the set of EmotionCategory values, for each label L of it the pipeline's triple
\* for the string L equals emotion_to_vad(EmotionCategory(L)), and for a key neither
\* table holds both lookups give the same default triple
VadTablesAgree ==
    /\ DOMAIN EMOTION_TO_VAD = EmotionCategory
    /\ VadApplied =>
        /\ (args.table = "perception" /\ args.key.value \in Labels)
              => ret.value = emotion_to_vad(EnumKey(args.key.value))
        /\ (args.table = "affect" /\ args.key.type = "EmotionCategory")
              => ret.value = VadLookup(args.key.value)
        /\ args.key.value \notin Labels
              => (ret.value = VadLookup(args.key.value) /\ ret.value = emotion_to_vad(args.key))

\* C29 witness: the affect module's function was applied to EmotionCategory.FEAR and
\* returned the triple the pipeline holds for 'fear'
FearAgreesWitness ==
    /\ VadApplied /\ args.table = "affect" /\ args.key = EnumKey("fear")
    /\ ret.value = <<-6, 8, -5>> /\ ret.value = EMOTION_TO_VAD["fear"]

LandmarksAnalyzed == phase = "fn" /\ op = "landmarks" /\ ret # NoRet

\* C14: _analyze_face_landmarks returns None or a sequence of at most max_faces
\* entries, also when the landmark model reports more faces than max_faces, and entry
\* k carries face_index k; an enabled extractor whose model reports n > 0 faces returns
\* min(n, max_faces) entries
LandmarksCapped ==
    LandmarksAnalyzed =>
        /\ \/ ret = None
           \/ /\ ret.kind = "list"
              /\ Len(ret.items) <= args.max_faces
              /\ \A k \in 1..Len(ret.items) : ret.items[k].face_index = k - 1
        /\ (use_landmarks /\ args.lmOut.kind = "faces" /\ args.lmOut.n > 0) =>
              ret.kind = "list" /\ Len(ret.items) = Min(args.lmOut.n, args.max_faces)
        /\ (~use_landmarks \/ args.lmOut.kind = "raise" \/ args.lmOut.n = 0) => ret = None

\* C14 witness: the landmark model reported more faces than max_faces, and exactly
\* max_faces entries came back
LandmarksCappedWitness ==
    /\ LandmarksAnalyzed /\ use_landmarks
    /\ args.lmOut.n = MaxFaces + 1 /\ args.max_faces = MaxFaces
    /\ ret.kind = "list" /\ Len(ret.items) = MaxFaces
    /\ ret.items[MaxFaces].face_index = MaxFaces - 1

(***************************************************************************)
(* Spec: one constructed instance, called with caller-supplied frames.     *)
(***************************************************************************)
\* an emotions map: a holds p, b holds q, every other label 0
Dist(a, p, b, q) == [l \in Labels |-> IF l = a THEN p ELSE IF l = b THEN q ELSE 0]

\* probabilities at and just below the two thresholds
Probs == {19, 20, 29, 30}

\* the maps the classifier returns in single-face calls
Dists == {Dist(a, p, "happy", q) : a \in Labels, p \in Probs, q \in Probs}

\* the maps it returns in multi-face calls: one accepted by both thresholds, one that
\* is a tie below both
FewDists == {Dist("happy", 30, "sad", 19), Dist("sad", 19, "happy", 19)}

ClsNotRun == [kind |-> "notrun"]
ClsOutcomes(D) == {ClsRaise, ClsEmpty} \cup {ClsFaces(d) : d \in D}

\* the raw boxes the detectors report in pipeline runs: one inside the frame, and for
\* MediaPipe one that starts beyond the right edge
PipeRawTasks(w, h) ==
    {[origin_x |-> 1, origin_y |-> 0, width |-> 2, height |-> 2],
     [origin_x |-> w + 1, origin_y |-> 0, width |-> 2, height |-> 2]}
PipeRawLegacy ==
    {[xmin |-> 1, ymin |-> 0, width |-> 2, height |-> 2],
     [xmin |-> RelDen + 1, ymin |-> 0, width |-> 2, height |-> 2]}
PipeRawHaar(w, h) == {<<0, 0, 2, 2>>, <<1, 1, w - 1, h - 1>>}

\* what the active detector can report on a w x h frame
RawBoxes(w, h) ==
    IF ~use_mediapipe THEN PipeRawHaar(w, h)
    ELSE IF use_new_api = "True" THEN PipeRawTasks(w, h)
    ELSE PipeRawLegacy

\* the max_faces arguments of multi-face calls; 5 is the default
MaxFacesArgs == {-1, 0, 1, 5}

\* what Spec keeps of the construction environment
CtorFacts(e) == [asset_missing |-> e.model_files = {}, legacy |-> e.legacy, fer |-> e.fer]

\* the states a construction leaves: "idle" when __init__ returned, "failed" when it raised
Init ==
    /\ \E e \in CtorEnvs :
          LET c == Ctor(e)
          IN  /\ phase = (IF c.ret = None THEN "idle" ELSE "failed")
              /\ ret = (IF c.ret = None THEN NoRet ELSE c.ret)
              /\ op = (IF c.ret = None THEN "none" ELSE "__init__")
              /\ env = CtorFacts(e)
              /\ use_mediapipe = c.use_mediapipe
              /\ use_new_api = c.use_new_api
              /\ use_landmarks = c.use_landmarks
              /\ face_landmarker = c.face_landmarker
              /\ min_confidence = e.min_confidence
    /\ cap = "None" /\ capOpens = 0 /\ capReleases = 0
    /\ afterRelease = FALSE /\ args = NoEnv /\ calls = <<>> /\ heap = NoHeap

\* the classifier's results in single-face and in multi-face calls
ClsSingle == ClsOutcomes(Dists)
ClsMulti == ClsOutcomes(FewDists)

\* what the classifier can do on the crop of box: a crop without a pixel holds no face
CropOutcomes(D, box, w, h) ==
    IF CropEmpty(box, w, h) THEN {ClsRaise, ClsEmpty} ELSE D

\* what the landmark model can do when perceive reaches it
LmChoices(faces) ==
    IF faces = <<>> \/ ~use_landmarks THEN {LmNotRun} ELSE LmOutcomes

\* perceive(frame) with a caller-supplied frame
Perceive ==
    /\ phase = "idle"
    /\ \E detections \in SeqsUpTo(RawBoxes(FrameW, FrameH), MaxFaces) :
          LET dims == PreprocessFrame(FrameW, FrameH)
              faces == DetectFaces(use_mediapipe, use_new_api, detections, dims[1], dims[2])
          IN  \E lmOut \in LmChoices(faces),
                 cropOut \in (IF faces = <<>> THEN {ClsNotRun}
                              ELSE CropOutcomes(ClsSingle, PrimaryFace(faces), dims[1], dims[2])) :
                 \E frameOut \in (IF cropOut.kind = "empty" THEN ClsSingle ELSE {ClsNotRun}) :
                    LET r == PerceiveOnFrame(FrameW, FrameH, detections, lmOut, cropOut, frameOut)
                    IN  /\ ret' = r.ret
                        /\ calls' = r.calls
                        /\ args' = [w |-> FrameW, h |-> FrameH, detections |-> detections,
                                    faces |-> faces, lmOut |-> lmOut, cropOuts |-> <<cropOut>>,
                                    frameOut |-> frameOut, max_faces |-> 1]
    /\ op' = "perceive"
    /\ phase' = "returned"
    /\ UNCHANGED afterRelease
    /\ unchangedInstance

\* perceive_all_faces(frame, max_faces) with a caller-supplied frame
PerceiveAll ==
    /\ phase = "idle"
    /\ \E detections \in SeqsUpTo(RawBoxes(FrameW, FrameH), MaxFaces),
          max_faces \in MaxFacesArgs :
          LET dims == PreprocessFrame(FrameW, FrameH)
              located == DetectFaces(use_mediapipe, use_new_api, detections, dims[1], dims[2])
              faces == IF located = <<>> THEN <<>> ELSE Truncate(located, max_faces)
          IN  \E lmOut \in LmChoices(located),
                 cropOuts \in [1..Len(faces) -> ClsMulti] :
                    LET r == PerceiveAllOnFrame(FrameW, FrameH, detections, lmOut,
                                                cropOuts, max_faces)
                    IN  /\ \A i \in 1..Len(faces) :
                              cropOuts[i] \in CropOutcomes(ClsMulti, faces[i], dims[1], dims[2])
                        /\ ret' = r.ret
                        /\ calls' = r.calls
                        /\ args' = [w |-> FrameW, h |-> FrameH, detections |-> detections,
                                    faces |-> located, lmOut |-> lmOut,
                                    cropOuts |-> cropOuts, frameOut |-> ClsNotRun,
                                    max_faces |-> max_faces]
    /\ op' = "perceive_all_faces"
    /\ phase' = "returned"
    /\ UNCHANGED afterRelease
    /\ unchangedInstance

\* the caller takes the result; the instance is ready for the next call
Return ==
    /\ phase = "returned"
    /\ phase' = "idle"
    /\ afterRelease' = (op = "release")
    /\ op' = "none" /\ args' = NoEnv /\ ret' = NoRet /\ calls' = <<>>
    /\ unchangedInstance

Next == Perceive \/ PerceiveAll \/ Return

Spec == Init /\ [][Next]_vars

(***************************************************************************)
(* Claims about calls with a caller-supplied frame (under Spec).           *)
(***************************************************************************)
Returned(o) == phase = "returned" /\ op = o

\* the Percepts a returned value holds
PerceptsOf(r) ==
    IF r.kind = "Percept" THEN {r}
    ELSE IF r.kind = "list"
    THEN {r.items[i] : i \in {j \in 1..Len(r.items) : r.items[j].kind = "Percept"}}
    ELSE {}

CallsTo(fns) == {i \in 1..Len(calls) : calls[i].fn \in fns}

\* C1: when the face locator returns no boxes, perceive returns None and
\* perceive_all_faces returns the empty list, neither raises, and neither the landmark
\* extractor nor the classifier is invoked
NoFacesGiveAbsence ==
    ((Returned("perceive") \/ Returned("perceive_all_faces")) /\ args.faces = <<>>) =>
        /\ Returned("perceive") => ret = None
        /\ Returned("perceive_all_faces") => ret = [kind |-> "list", items |-> <<>>]
        /\ CallsTo({"landmarks", "classify_crop", "classify_frame"}) = {}

\* C1 witness: a multi-face call on a frame without faces returned the empty list on an
\* instance whose landmark extractor is enabled
NoFacesWitness ==
    /\ Returned("perceive_all_faces") /\ args.faces = <<>> /\ use_landmarks
    /\ ret.kind = "list" /\ ret.items = <<>>

\* whether slot i of a multi-face result is None or the Percept of face i
SlotAligned(i) ==
    \/ ret.items[i] = None
    \/ /\ ret.items[i].kind = "Percept"
       /\ ret.items[i].metadata.face_index = i - 1
       /\ ret.items[i].metadata.bounding_box = args.faces[i]

\* C2 as stated: for every max_faces the list of perceive_all_faces has length
\* min(number located, max_faces), and slot i is None or the Percept of face i
SlotsForAnyMaxFaces ==
    Returned("perceive_all_faces") =>
        /\ ret.kind = "list"
        /\ Len(ret.items) = Min(Len(args.faces), args.max_faces)
        /\ \A i \in 1..Len(ret.items) : SlotAligned(i)

\* C2 amended: for max_faces >= 0 the list has length min(number located, max_faces);
\* for a negative max_faces the slice drops the last -max_faces faces; in both cases
\* slot i is None or the Percept of face i with the i-th located box, and a failed face
\* (classifier exception, empty classification, low confidence) holds None in its slot
SlotsForNonNegativeMaxFaces ==
    Returned("perceive_all_faces") =>
        /\ ret.kind = "list"
        /\ args.max_faces >= 0 => Len(ret.items) = Min(Len(args.faces), args.max_faces)
        /\ args.max_faces < 0 => Len(ret.items) = Max(0, Len(args.faces) + args.max_faces)
        /\ \A i \in 1..Len(ret.items) :
              /\ SlotAligned(i)
              /\ args.cropOuts[i].kind \in {"raise", "empty"} => ret.items[i] = None

\* C2 witness: two faces were located, the first failed and the second did not, and the
\* list holds None and then the Percept of the second face
SlotsWitness ==
    /\ Returned("perceive_all_faces") /\ Len(args.faces) = 2 /\ args.max_faces = 5
    /\ ret.kind = "list" /\ Len(ret.items) = 2
    /\ args.cropOuts[1].kind = "raise"
    /\ ret.items[1] = None /\ ret.items[2].kind = "Percept"
    /\ ret.items[2].metadata.face_index = 1

\* C3: in every Percept returned, dominant_emotion holds the greatest probability of
\* all_emotions and the confidence is that probability
DominantIsArgMax ==
    \A p \in PerceptsOf(ret) :
        /\ p.metadata.dominant_emotion \in Labels
        /\ \A l \in Labels :
              p.metadata.all_emotions[l] <= p.metadata.all_emotions[p.metadata.dominant_emotion]
        /\ p.confidence = p.metadata.all_emotions[p.metadata.dominant_emotion]

\* C3 witness: a Percept made from the full-frame retry, whose map holds a tie
RetryPerceptWitness ==
    /\ Returned("perceive") /\ ret.kind = "Percept"
    /\ args.cropOuts[1].kind = "empty" /\ args.frameOut.kind = "faces"
    /\ ret.metadata.all_emotions = args.frameOut.emotions
    /\ ret.metadata.all_emotions["sad"] = ret.metadata.all_emotions["happy"]
    /\ ret.metadata.dominant_emotion = "happy"

\* the greatest probability of an emotions map
BestProb(emotions) ==
    CHOOSE m \in {emotions[l] : l \in Labels} : \A l \in Labels : emotions[l] <= m

\* the classification perceive ends with: the crop's, or the frame's after an empty crop
FinalOut ==
    IF args.cropOuts[1].kind = "empty" THEN args.frameOut ELSE args.cropOuts[1]

\* C4: a face classified with best probability p gets a Percept if and only if
\* p >= min_confidence, in perceive and in every slot of perceive_all_faces
PerceptIffAtLeastThreshold ==
    /\ (Returned("perceive") /\ args.faces # <<>> /\ FinalOut.kind = "faces") =>
          (ret.kind = "Percept" <=> BestProb(FinalOut.emotions) >= min_confidence)
          /\ ret.kind \in {"Percept", "None"}
    /\ (Returned("perceive_all_faces") /\ ret.kind = "list") =>
          \A i \in 1..Len(ret.items) :
              args.cropOuts[i].kind = "faces" =>
                  (ret.items[i].kind = "Percept"
                      <=> BestProb(args.cropOuts[i].emotions) >= min_confidence)

\* C4 witness: a Percept whose confidence is exactly min_confidence
AtThresholdWitness ==
    /\ Returned("perceive") /\ ret.kind = "Percept"
    /\ ret.confidence = min_confidence

\* C8: the hints of every Percept are the table entry of its dominant_emotion; a
\* Percept whose dominant label is 'happy' has valence > 0, arousal > 0.5 and the
\* 'happy' probability as its confidence
HintsFromDominantLabel ==
    \A p \in PerceptsOf(ret) :
        /\ <<p.valence_hint, p.arousal_hint, p.dominance_hint>>
               = EMOTION_TO_VAD[p.metadata.dominant_emotion]
        /\ p.metadata.dominant_emotion = "happy" =>
              /\ p.valence_hint > 0
              /\ p.arousal_hint > 5
              /\ p.confidence = p.metadata.all_emotions["happy"]

\* C8 witness: a Percept whose dominant label is 'happy' while another label holds a
\* probability of its own
HappyPerceptWitness ==
    /\ Returned("perceive") /\ ret.kind = "Percept"
    /\ ret.metadata.dominant_emotion = "happy"
    /\ ret.metadata.all_emotions["neutral"] = 29
    /\ ret.valence_hint = 8 /\ ret.arousal_hint = 7

\* C10 as stated: when none of the candidate model files exists, the fallback is
\* selected and every Percept reports 'haar'
AssetMissingSelectsHaar ==
    env.asset_missing =>
        /\ use_mediapipe = FALSE
        /\ \A p \in PerceptsOf(ret) : p.metadata.detector = "haar"

\* C10 amended: when none of the candidate model files exists and the legacy solutions
\* API is missing (AttributeError), the fallback is selected, construction fails only
\* if the emotion classifier fails, and every Percept reports 'haar'
AssetAndLegacyMissingSelectHaar ==
    (env.asset_missing /\ env.legacy = "AttributeError") =>
        /\ use_mediapipe = FALSE
        /\ phase = "failed" => env.fer = "raise"
        /\ \A p \in PerceptsOf(ret) : p.metadata.detector = "haar"

\* C10 witness: such an instance returned a Percept, which reports 'haar'
HaarPerceptWitness ==
    /\ env.asset_missing /\ env.legacy = "AttributeError"
    /\ Returned("perceive") /\ ret.kind = "Percept"
    /\ ret.metadata.detector = "haar"

\* a returned value without what the landmark extractor contributed
StripLandmarks(r) ==
    IF r.kind = "Percept" THEN [r EXCEPT !.metadata.landmarks = None] ELSE r

\* the faces perceive_all_faces kept of the located ones
KeptFaces == Truncate(args.faces, args.max_faces)

\* C13: the landmark extractor is never load-bearing: whether it is disabled, raises,
\* finds no face or succeeds, perceive and every slot of perceive_all_faces give what
\* the pipeline gives without landmark data (same presence of a Percept, label, hints,
\* confidence and box), the landmark metadata apart, and its fault never reaches the
\* caller
LandmarksNotLoadBearing ==
    /\ (Returned("perceive") /\ args.faces # <<>>) =>
          /\ ret.kind # "raise"
          /\ StripLandmarks(ret) =
                (IF FinalOut.kind = "faces"
                 THEN SingleTail(FinalOut.emotions, args.faces[1], Len(args.faces), None)
                 ELSE None)
    /\ (Returned("perceive_all_faces") /\ args.faces # <<>>) =>
          /\ ret.kind = "list"
          /\ Len(ret.items) = Len(KeptFaces)
          /\ \A i \in 1..Len(ret.items) :
                StripLandmarks(ret.items[i]) =
                    FaceSlot(i - 1, KeptFaces[i], Len(KeptFaces), args.cropOuts[i], None)

\* C13 witness: the landmark model raised on a frame with a face, and perceive returned
\* the Percept of that face without landmark data
LandmarkFaultWitness ==
    /\ Returned("perceive") /\ use_landmarks /\ args.lmOut.kind = "raise"
    /\ ret.kind = "Percept" /\ ret.metadata.landmarks = None
    /\ ret.metadata.bounding_box = args.faces[1]

\* C15: perceive invokes the classifier on the crop of the face first; if and only if
\* that call returns an empty result, it invokes it exactly once more, on the full
\* frame; when that second call is empty too or raises, perceive returns None; no call
\* of perceive invokes the classifier more than twice
SingleFaceRetriesOnce ==
    Returned("perceive") =>
        LET onCrop == CallsTo({"classify_crop"})
            onFrame == CallsTo({"classify_frame"})
        IN  /\ Cardinality(onCrop) <= 1 /\ Cardinality(onFrame) <= 1
            /\ args.faces # <<>> => Cardinality(onCrop) = 1
            /\ args.faces = <<>> => onCrop = {}
            /\ onFrame # {} <=> (args.faces # <<>> /\ args.cropOuts[1].kind = "empty")
            /\ \A i \in onCrop, j \in onFrame : i < j
            /\ (onFrame # {} /\ args.frameOut.kind \in {"empty", "raise"}) => ret = None
            /\ (onFrame = {} /\ args.cropOuts[1].kind = "raise") => ret = None

\* C15 witness: the crop gave an empty result, the full frame was tried once and the
\* classifier raised on it, and perceive returned None
RetryRaisedWitness ==
    /\ Returned("perceive") /\ args.cropOuts[1].kind = "empty"
    /\ args.frameOut.kind = "raise"
    /\ Cardinality(CallsTo({"classify_crop", "classify_frame"})) = 2
    /\ calls[Len(calls)] = Call("classify_frame", 0)
    /\ ret = None

\* C16: in perceive_all_faces, when the classification of the crop of face i yields an
\* empty result, the classifier is tried once on the full frame before slot i is set
\* to None, as in perceive
MultiFaceRetriesOnFrame ==
    (Returned("perceive_all_faces") /\ ret.kind = "list") =>
        \A i \in 1..Len(ret.items) :
            args.cropOuts[i].kind = "empty" =>
                \E c \in CallsTo({"classify_frame"}) : calls[c].arg = i - 1

\* the slots of the same multi-face call with the classifier's result on face i
\* replaced by d
SlotsHad(i, d) ==
    PerceiveAllOnFrame(args.w, args.h, args.detections, args.lmOut,
                       [args.cropOuts EXCEPT ![i] = d], args.max_faces).ret.items

\* C17: in perceive_all_faces a classifier exception on face i is confined to slot i:
\* slot i is None, the classifier is still invoked on every other kept face, and every
\* other slot holds what it would hold had the classifier not failed on face i
ClassifierFaultConfined ==
    (Returned("perceive_all_faces") /\ args.faces # <<>>) =>
        /\ ret.kind = "list" /\ Len(ret.items) = Len(KeptFaces)
        /\ \A i \in 1..Len(ret.items) :
              args.cropOuts[i].kind = "raise" =>
                  /\ ret.items[i] = None
                  /\ \A j \in 1..Len(ret.items) :
                        \E c \in CallsTo({"classify_crop"}) : calls[c].arg = j - 1
                  /\ \A d \in {o \in ClsMulti : o.kind # "raise"} :
                        \A j \in (1..Len(ret.items)) \ {i} : ret.items[j] = SlotsHad(i, d)[j]

\* C17 witness: the classifier raised on the first of two faces, and the second face
\* was classified after it and got its Percept, with its own landmark entry
FaultConfinedWitness ==
    /\ Returned("perceive_all_faces") /\ use_landmarks
    /\ ret.kind = "list" /\ Len(ret.items) = 2
    /\ args.cropOuts[1].kind = "raise" /\ ret.items[1] = None
    /\ calls[Len(calls)] = Call("classify_crop", 1)
    /\ ret.items[2].kind = "Percept"
    /\ ret.items[2].metadata.landmarks.kind = "landmarks"
    /\ ret.items[2].metadata.landmarks.face_index = 1

(***************************************************************************)
(* SpecFault: calls with a caller-supplied frame on which the collaborators *)
(* misbehave: the face detector raises, the classifier returns a malformed *)
(* result.                                                                 *)
(***************************************************************************)
\* what the active face detector does on the frame: it raises, or reports detections
DetRaise == [kind |-> "raise", detections |-> <<>>]
DetFaces(detections) == [kind |-> "faces", detections |-> detections]

\* malformed emotions maps: the empty map, and a map holding a probability of 1.5
MalformedDists == {<<>>, Dist("happy", 150, "sad", 19)}

\* the classifier's results on such frames
ClsFault == ClsOutcomes(FewDists \cup MalformedDists)

\* lines 458-549 of perceive with a detector that may raise: lines 462-465 stand in no
\* try block
PerceiveFrame(w, h, detOut, lmOut, cropOut, frameOut) ==
    IF detOut.kind = "raise"
    THEN [ret |-> Raise("Exception"),
          calls |-> <<Call("preprocess", 0), DetectCall>>]
    ELSE PerceiveOnFrame(w, h, detOut.detections, lmOut, cropOut, frameOut)

\* lines 578-670 of perceive_all_faces with a detector that may raise: lines 582-585
\* stand in no try block
PerceiveAllFrame(w, h, detOut, lmOut, cropOuts, max_faces) ==
    IF detOut.kind = "raise"
    THEN [ret |-> Raise("Exception"),
          calls |-> <<Call("preprocess", 0), DetectCall>>]
    ELSE PerceiveAllOnFrame(w, h, detOut.detections, lmOut, cropOuts, max_faces)

\* what the detector does on a w x h frame
DetOutcomes(w, h) ==
    {DetRaise} \cup {DetFaces(d) : d \in SeqsUpTo(RawBoxes(w, h), MaxFaces)}

\* perceive(frame) with a caller-supplied frame and collaborators that may misbehave
PerceiveFaulty ==
    /\ phase = "idle"
    /\ \E detOut \in DetOutcomes(FrameW, FrameH) :
          LET dims == PreprocessFrame(FrameW, FrameH)
              faces == DetectFaces(use_mediapipe, use_new_api, detOut.detections,
                                   dims[1], dims[2])
          IN  \E lmOut \in LmChoices(faces),
                 cropOut \in (IF faces = <<>> THEN {ClsNotRun}
                              ELSE CropOutcomes(ClsFault, PrimaryFace(faces), dims[1], dims[2])) :
                 \E frameOut \in (IF cropOut.kind = "empty" THEN ClsFault ELSE {ClsNotRun}) :
                    LET r == PerceiveFrame(FrameW, FrameH, detOut, lmOut, cropOut, frameOut)
                    IN  /\ ret' = r.ret
                        /\ calls' = r.calls
                        /\ args' = [w |-> FrameW, h |-> FrameH, detOut |-> detOut,
                                    faces |-> faces, lmOut |-> lmOut, cropOuts |-> <<cropOut>>,
                                    frameOut |-> frameOut, max_faces |-> 1]
    /\ op' = "perceive"
    /\ phase' = "returned"
    /\ UNCHANGED afterRelease
    /\ unchangedInstance

\* perceive_all_faces(frame, max_faces) with a caller-supplied frame and collaborators
\* that may misbehave
PerceiveAllFaulty ==
    /\ phase = "idle"
    /\ \E detOut \in DetOutcomes(FrameW, FrameH), max_faces \in {1, 5} :
          LET dims == PreprocessFrame(FrameW, FrameH)
              located == DetectFaces(use_mediapipe, use_new_api, detOut.detections,
                                     dims[1], dims[2])
              faces == IF located = <<>> THEN <<>> ELSE Truncate(located, max_faces)
          IN  \E lmOut \in LmChoices(located),
                 cropOuts \in [1..Len(faces) -> ClsFault] :
                    LET r == PerceiveAllFrame(FrameW, FrameH, detOut, lmOut,
                                              cropOuts, max_faces)
                    IN  /\ \A i \in 1..Len(faces) :
                              cropOuts[i] \in CropOutcomes(ClsFault, faces[i], dims[1], dims[2])
                        /\ ret' = r.ret
                        /\ calls' = r.calls
                        /\ args' = [w |-> FrameW, h |-> FrameH, detOut |-> detOut,
                                    faces |-> located, lmOut |-> lmOut,
                                    cropOuts |-> cropOuts, frameOut |-> ClsNotRun,
                                    max_faces |-> max_faces]
    /\ op' = "perceive_all_faces"
    /\ phase' = "returned"
    /\ UNCHANGED afterRelease
    /\ unchangedInstance

NextFault == PerceiveFaulty \/ PerceiveAllFaulty \/ Return

SpecFault == Init /\ [][NextFault]_vars

(***************************************************************************)
(* Claims about faults inside the per-frame path (under SpecFault).        *)
(***************************************************************************)
\* C18: on a constructed instance, perceive(frame) and perceive_all_faces(frame)
\* never raise: a face detector that raises, a classifier that raises and a classifier
\* result with an empty emotions map or a probability outside [0,1] all end in
\* None, or in a list
FrameCallsNeverRaise ==
    /\ Returned("perceive") => ret.kind \in {"None", "Percept"}
    /\ Returned("perceive_all_faces") => ret.kind = "list"

(***************************************************************************)
(* SpecCam: the capture device.  Frame-less calls, release, scoped exit    *)
(* and destruction.                                                        *)
(***************************************************************************)
\* mutant of OpenCamera: a capture that did not open is kept without an error
OpenCameraSilent(c, opened) ==
    IF c = "None" \/ c = "unopened"
    THEN [cap |-> IF opened THEN "opened" ELSE "unopened", created |-> 1, raised |-> FALSE]
    ELSE [cap |-> c, created |-> 0, raised |-> FALSE]

\* mutant of OpenCamera: every call creates a new capture
OpenCameraAlways(c, opened) ==
    [cap |-> IF opened THEN "opened" ELSE "unopened", created |-> 1, raised |-> ~opened]

\* _open_camera(): opened tells whether a newly created VideoCapture opens the device.
\* Result: the stored handle, the number of captures created, and whether it raised.
OpenCamera(c, opened) ==
    IF c = "None" \/ c = "unopened"
    THEN [cap |-> IF opened THEN "opened" ELSE "unopened", created |-> 1, raised |-> ~opened]
    ELSE [cap |-> c, created |-> 0, raised |-> FALSE]

\* mutant of ReleaseCamera: the stored handle is dropped without cap.release()
ReleaseCameraForgets(c) == [cap |-> "None", released |-> 0]

\* mutant of ReleaseCamera: the stored handle is not cleared
ReleaseCameraKeepsHandle(c) ==
    IF c # "None" THEN [cap |-> c, released |-> 1] ELSE [cap |-> c, released |-> 0]

\* release(): the stored handle afterwards and the number of cap.release() calls made
ReleaseCamera(c) ==
    IF c # "None" THEN [cap |-> "None", released |-> 1] ELSE [cap |-> c, released |-> 0]

\* mutant of NeedsCamera: the camera is used whatever the caller passes
NeedsCameraAlways(frame) == TRUE

\* "if frame is None:" (lines 451 and 571); frame is "None" or "given"
NeedsCamera(frame) == frame = "None"

\* what the classifier returns on camera frames
CamDists == {Dist("happy", 30, "sad", 19)}
ClsCam == ClsOutcomes(CamDists)

\* perceive() without a frame: lines 451-456, then the pipeline on the frame read.  The
\* call log starts with open_camera (argument: the number of VideoCapture objects it
\* created) and read (argument: 1 when a frame was read, 0 when not).
PerceiveCamera ==
    /\ phase = "idle"
    /\ NeedsCamera("None")
    /\ (cap # "opened") => capOpens < MaxCapOps
    /\ \E opened \in BOOLEAN, readOk \in BOOLEAN :
          LET o == OpenCamera(cap, opened)
          IN  /\ cap' = o.cap
              /\ capOpens' = capOpens + o.created
              /\ o.raised => (readOk /\ ret' = Raise("RuntimeError")
                              /\ calls' = <<Call("open_camera", o.created)>> /\ args' = NoEnv)
              /\ (~o.raised /\ ~readOk) =>
                    (ret' = None /\ args' = NoEnv
                     /\ calls' = <<Call("open_camera", o.created), Call("read", 0)>>)
              /\ (~o.raised /\ readOk) =>
                    \E detections \in SeqsUpTo(RawBoxes(FrameW, FrameH), 1) :
                       LET faces == DetectFaces(use_mediapipe, use_new_api, detections,
                                                FrameW, FrameH)
                       IN  \E lmOut \in LmChoices(faces),
                              cropOut \in (IF faces = <<>> THEN {ClsNotRun}
                                           ELSE CropOutcomes(ClsCam, PrimaryFace(faces), FrameW, FrameH)) :
                              \E frameOut \in (IF cropOut.kind = "empty"
                                               THEN ClsCam ELSE {ClsNotRun}) :
                                 LET r == PerceiveOnFrame(FrameW, FrameH, detections,
                                                          lmOut, cropOut, frameOut)
                                 IN  /\ ret' = r.ret
                                     /\ calls' = <<Call("open_camera", o.created),
                                                   Call("read", 1)>> \o r.calls
                                     /\ args' = [w |-> FrameW, h |-> FrameH,
                                                 detections |-> detections, faces |-> faces,
                                                 lmOut |-> lmOut, cropOuts |-> <<cropOut>>,
                                                 frameOut |-> frameOut, max_faces |-> 1]
    /\ op' = "perceive"
    /\ phase' = "returned"
    /\ UNCHANGED <<heap, env, use_mediapipe, use_new_api, use_landmarks, face_landmarker,
                   min_confidence, capReleases, afterRelease>>

\* perceive_all_faces() without a frame: lines 571-576, then the pipeline on the frame
\* read, with the default max_faces
PerceiveAllCamera ==
    /\ phase = "idle"
    /\ NeedsCamera("None")
    /\ (cap # "opened") => capOpens < MaxCapOps
    /\ \E opened \in BOOLEAN, readOk \in BOOLEAN :
          LET o == OpenCamera(cap, opened)
          IN  /\ cap' = o.cap
              /\ capOpens' = capOpens + o.created
              /\ o.raised => (readOk /\ ret' = Raise("RuntimeError")
                              /\ calls' = <<Call("open_camera", o.created)>> /\ args' = NoEnv)
              /\ (~o.raised /\ ~readOk) =>
                    (ret' = [kind |-> "list", items |-> <<>>] /\ args' = NoEnv
                     /\ calls' = <<Call("open_camera", o.created), Call("read", 0)>>)
              /\ (~o.raised /\ readOk) =>
                    \E detections \in SeqsUpTo(RawBoxes(FrameW, FrameH), 1) :
                       LET faces == DetectFaces(use_mediapipe, use_new_api, detections,
                                                FrameW, FrameH)
                       IN  \E lmOut \in LmChoices(faces),
                              cropOuts \in [1..Len(faces) -> ClsCam] :
                                 LET r == PerceiveAllOnFrame(FrameW, FrameH, detections,
                                                             lmOut, cropOuts, 5)
                                 IN  /\ \A i \in 1..Len(faces) :
                                           cropOuts[i] \in CropOutcomes(ClsCam, faces[i],
                                                                        FrameW, FrameH)
                                     /\ ret' = r.ret
                                     /\ calls' = <<Call("open_camera", o.created),
                                                   Call("read", 1)>> \o r.calls
                                     /\ args' = [w |-> FrameW, h |-> FrameH,
                                                 detections |-> detections, faces |-> faces,
                                                 lmOut |-> lmOut, cropOuts |-> cropOuts,
                                                 frameOut |-> ClsNotRun, max_faces |-> 5]
    /\ op' = "perceive_all_faces"
    /\ phase' = "returned"
    /\ UNCHANGED <<heap, env, use_mediapipe, use_new_api, use_landmarks, face_landmarker,
                   min_confidence, capReleases, afterRelease>>

\* release()
Release ==
    /\ phase = "idle"
    /\ LET r == ReleaseCamera(cap)
       IN  /\ cap' = r.cap
           /\ capReleases' = capReleases + r.released
    /\ op' = "release"
    /\ ret' = None
    /\ calls' = <<>> /\ args' = NoEnv
    /\ phase' = "returned"
    /\ UNCHANGED <<heap, env, use_mediapipe, use_new_api, use_landmarks, face_landmarker,
                   min_confidence, capOpens, afterRelease>>

\* __exit__(exc_type, exc_val, exc_tb): releases and returns False, so that an exception
\* of the with-block is raised again
Exit ==
    /\ phase = "idle"
    /\ \E exc \in BOOLEAN :
          /\ args' = [exc |-> exc]
          /\ ret' = [kind |-> "False"]
    /\ LET r == ReleaseCamera(cap)
       IN  /\ cap' = r.cap
           /\ capReleases' = capReleases + r.released
    /\ op' = "__exit__"
    /\ calls' = <<>>
    /\ phase' = "returned"
    /\ UNCHANGED <<heap, env, use_mediapipe, use_new_api, use_landmarks, face_landmarker,
                   min_confidence, capOpens, afterRelease>>

\* __del__(): releases; the object is gone afterwards.  It also runs on an object whose
\* construction raised.
Del ==
    /\ phase \in {"idle", "failed"}
    /\ LET r == ReleaseCamera(cap)
       IN  /\ cap' = r.cap
           /\ capReleases' = capReleases + r.released
    /\ op' = "__del__"
    /\ ret' = None
    /\ calls' = <<>> /\ args' = NoEnv
    /\ phase' = "dead"
    /\ UNCHANGED <<heap, env, use_mediapipe, use_new_api, use_landmarks, face_landmarker,
                   min_confidence, capOpens, afterRelease>>

NextCam == PerceiveCamera \/ PerceiveAllCamera \/ Release \/ Exit \/ Del \/ Return

SpecCam == Init /\ [][NextCam]_vars

(***************************************************************************)
(* Claims about the capture device (under SpecCam).                        *)
(***************************************************************************)
\* C9: release() is idempotent: from any state it raises nothing and leaves the stored
\* handle None, and a release() that directly follows a release() changes no state and
\* calls release on no capture handle
ReleaseIdempotent ==
    [][(phase = "idle" /\ op' = "release") =>
          /\ ret' = None
          /\ cap' = "None"
          /\ fields' = fields
          /\ afterRelease =>
                /\ cap' = cap
                /\ capReleases' = capReleases
                /\ capOpens' = capOpens]_vars

\* C9 witness: release() returned for the second time in a row, the first having
\* released an open camera
SecondReleaseWitness ==
    /\ Returned("release") /\ afterRelease
    /\ capOpens = 1 /\ capReleases = 1 /\ cap = "None"

FramelessCall == phase = "returned" /\ op \in {"perceive", "perceive_all_faces"}

\* C19: in a call of perceive or perceive_all_faces without a frame, a capture device
\* that cannot be opened makes the call raise RuntimeError; a device that is open but
\* whose read returns no frame makes perceive return None and perceive_all_faces the
\* empty list, without raising and without running any detector or classifier
CaptureFaults ==
    FramelessCall =>
        /\ calls # <<>> /\ calls[1].fn = "open_camera"
        /\ cap = "unopened" <=> ret = Raise("RuntimeError")
        /\ cap = "unopened" => Len(calls) = 1
        /\ cap # "unopened" =>
              /\ cap = "opened"
              /\ Len(calls) >= 2 /\ calls[2].fn = "read"
              /\ calls[2].arg = 0 =>
                    /\ Len(calls) = 2
                    /\ op = "perceive" => ret = None
                    /\ op = "perceive_all_faces" => ret = [kind |-> "list", items |-> <<>>]
              /\ calls[2].arg = 1 => Len(calls) > 2

\* C19 witness: perceive_all_faces() on an open device whose read returned no frame
\* gave the empty list, a failed open having raised earlier
ReadFailedWitness ==
    /\ FramelessCall /\ op = "perceive_all_faces"
    /\ capOpens = 2 /\ cap = "opened"
    /\ calls = <<Call("open_camera", 1), Call("read", 0)>>
    /\ ret = [kind |-> "list", items |-> <<>>]

\* C20: the capture handle goes closed -> open -> closed: construction leaves no
\* handle and opens no device; a frame-less call that finds no handle creates one; a
\* frame-less call that finds the handle open keeps it and creates none; release() and
\* __exit__ release the handle they find and leave the stored handle None
CaptureLifecycle ==
    /\ cap = "None" /\ capOpens = 0 /\ capReleases = 0
    /\ [][(phase = "idle" /\ phase' = "returned") =>
            /\ (op' \in {"perceive", "perceive_all_faces"} /\ cap = "None") =>
                  /\ capOpens' = capOpens + 1
                  /\ cap' \in {"opened", "unopened"}
                  /\ capReleases' = capReleases
            /\ (op' \in {"perceive", "perceive_all_faces"} /\ cap = "opened") =>
                  /\ cap' = "opened"
                  /\ capOpens' = capOpens
                  /\ capReleases' = capReleases
            /\ op' \in {"release", "__exit__"} =>
                  /\ cap' = "None"
                  /\ capOpens' = capOpens
                  /\ capReleases' = capReleases + (IF cap = "None" THEN 0 ELSE 1)]_vars

\* C20 witness: a frame-less perceive() found the handle open and reused it
HandleReusedWitness ==
    /\ FramelessCall /\ op = "perceive"
    /\ calls # <<>> /\ calls[1] = Call("open_camera", 0)
    /\ cap = "opened" /\ capOpens = 1 /\ capReleases = 0

\* C21 as stated: every capture the instance created is released exactly once: no
\* capture is created while another one is still stored, and after destruction every
\* capture created has been released
CapturesReleasedExactlyOnce ==
    /\ [][~(cap # "None" /\ capOpens' # capOpens)]_vars
    /\ [](capReleases <= capOpens)
    /\ [](phase = "dead" => capReleases = capOpens)

\* C21: every capture handle that opened the device is released exactly once: it
\* leaves the instance only through release(), __exit__ or __del__, each of which
\* calls cap.release() on it once and stores None; it is never replaced by a new
\* capture; a teardown that finds no handle releases nothing; __exit__ returns False,
\* so that an exception of the with-block is raised again; and after destruction no
\* handle is left
HandleReleasedExactlyOnce ==
    /\ [][/\ (cap = "opened" /\ cap' # "opened") =>
                 (/\ op' \in {"release", "__exit__", "__del__"}
                  /\ cap' = "None"
                  /\ capReleases' = capReleases + 1
                  /\ capOpens' = capOpens)
          /\ (cap = "opened" /\ cap' = "opened") =>
                 (capOpens' = capOpens /\ capReleases' = capReleases)
          /\ (cap = "None" /\ op' \in {"release", "__exit__", "__del__"}) =>
                 (cap' = "None" /\ capReleases' = capReleases)
          /\ (phase = "idle" /\ op' = "__exit__") => (ret' = [kind |-> "False"])
          /\ (phase' = "dead") => (cap' = "None")]_vars
    /\ [](capReleases <= capOpens)

\* C21 witness: the object was destroyed while it held an open handle, which was
\* released then, an earlier handle having been released before
TeardownWitness ==
    /\ phase = "dead" /\ op = "__del__"
    /\ capOpens = 2 /\ capReleases = 2 /\ cap = "None"

(***************************************************************************)
(* Claims about the stages of one call and the face a Percept describes    *)
(* (under Spec).                                                           *)
(***************************************************************************)
DetectCalls == CallsTo({"detect_faces_mediapipe", "detect_faces_haar"})

\* C26: within one call of perceive or perceive_all_faces the stages run in the order
\* preprocess, locate, landmarks, classify: the preprocessing and the face locator run
\* exactly once each, the landmark extractor runs at most once, after the locator and
\* only when a face was located, limited to 1 face in perceive and to the number of
\* faces kept in perceive_all_faces, every classifier call comes after these, and in
\* perceive_all_faces the classifier runs once per kept face, in face-index order
StagesInOrder ==
    (Returned("perceive") \/ Returned("perceive_all_faces")) =>
        LET lm == CallsTo({"landmarks"})
            cls == CallsTo({"classify_crop", "classify_frame"})
            before == 2 + Cardinality(lm)
        IN  /\ CallsTo({"preprocess"}) = {1}
            /\ DetectCalls = {2}
            /\ Cardinality(lm) <= 1
            /\ lm # {} =>
                  /\ lm = {3} /\ args.faces # <<>>
                  /\ calls[3].arg = (IF op = "perceive" THEN 1 ELSE Len(KeptFaces))
            /\ args.faces = <<>> => Len(calls) = 2
            /\ cls = (before + 1)..Len(calls)
            /\ (op = "perceive_all_faces" /\ args.faces # <<>>) =>
                  /\ Len(calls) = before + Len(KeptFaces)
                  /\ \A i \in 1..Len(KeptFaces) :
                        calls[before + i] = Call("classify_crop", i - 1)
            /\ (op = "perceive" /\ args.faces # <<>>) =>
                  /\ calls[before + 1] = Call("classify_crop", 0)
                  /\ Len(calls) = before + 1 + (IF args.cropOuts[1].kind = "empty" THEN 1 ELSE 0)
                  /\ args.cropOuts[1].kind = "empty" =>
                        calls[Len(calls)] = Call("classify_frame", 0)

\* C26 witness: a multi-face call on two faces made one landmark pass for both and
\* then classified face 0 and face 1
SharedPassWitness ==
    /\ Returned("perceive_all_faces") /\ Len(KeptFaces) = 2
    /\ calls = <<Call("preprocess", 0), DetectCall, Call("landmarks", 2),
                 Call("classify_crop", 0), Call("classify_crop", 1)>>

\* C28 as stated: a Percept of perceive carries the first located box, the number of
\* located boxes, and the classifier's result for the region of that first box
FirstFaceDescribed ==
    (Returned("perceive") /\ ret.kind = "Percept") =>
        /\ ret.metadata.bounding_box = args.faces[1]
        /\ ret.metadata.num_faces = Len(args.faces)
        /\ args.cropOuts[1].kind = "faces"
        /\ ret.metadata.all_emotions = args.cropOuts[1].emotions

\* C28: a Percept of perceive carries the first located box and the number of located
\* boxes; its distribution is the classifier's result for the region of that box when
\* that result was not empty, and otherwise the classifier's first result on the
\* whole frame
FirstBoxWithFinalDistribution ==
    (Returned("perceive") /\ ret.kind = "Percept") =>
        /\ ret.metadata.bounding_box = args.faces[1]
        /\ ret.metadata.num_faces = Len(args.faces)
        /\ args.cropOuts[1].kind \in {"faces", "empty"}
        /\ args.cropOuts[1].kind = "faces" =>
              ret.metadata.all_emotions = args.cropOuts[1].emotions
        /\ args.cropOuts[1].kind = "empty" =>
              (args.frameOut.kind = "faces"
               /\ ret.metadata.all_emotions = args.frameOut.emotions)

\* C28 witness: two different faces were located, the crop of the first gave nothing,
\* and the Percept carries the first box with the distribution of the whole frame
RetryKeepsFirstBoxWitness ==
    /\ Returned("perceive") /\ ret.kind = "Percept"
    /\ Len(args.faces) = 2 /\ args.faces[1] # args.faces[2]
    /\ args.cropOuts[1].kind = "empty"
    /\ ret.metadata.bounding_box = args.faces[1] /\ ret.metadata.num_faces = 2
    /\ ret.metadata.all_emotions = args.frameOut.emotions

(***************************************************************************)
(* SpecMix: one instance under every operation: calls with a frame of the  *)
(* caller, frame-less calls, release and scoped exit.                      *)
(***************************************************************************)
MaxBatch == 2        \* most frames of one batch_perceive call

\* lines 451-456 and 571-576 for a call with the argument frame: the stored handle
\* afterwards, the captures created and the camera calls made (a camera that opens
\* and delivers a frame)
FrameSource(frame, c) ==
    IF NeedsCamera(frame)
    THEN LET o == OpenCamera(c, TRUE)
         IN  [cap |-> o.cap, created |-> o.created,
              calls |-> <<Call("open_camera", o.created), Call("read", 1)>>]
    ELSE [cap |-> c, created |-> 0, calls |-> <<>>]

\* what one frame of the caller holds: the detector's boxes and what the landmark model
\* and the classifier do on it
FrameRuns(maxBoxes, lmSet) ==
    UNION {LET faces == DetectFaces(use_mediapipe, use_new_api, detections, FrameW, FrameH)
           IN  {[detections |-> detections, faces |-> faces, lmOut |-> lmOut,
                 cropOut |-> cropOut, frameOut |-> frameOut] :
                    lmOut \in (IF faces = <<>> \/ ~use_landmarks THEN {LmNotRun} ELSE lmSet),
                    cropOut \in (IF faces = <<>> THEN {ClsNotRun}
                                 ELSE CropOutcomes(ClsCam, PrimaryFace(faces), FrameW, FrameH)),
                    frameOut \in {ClsNotRun, ClsFaces(Dist("happy", 30, "sad", 19))}}
           : detections \in SeqsUpTo(RawBoxes(FrameW, FrameH), maxBoxes)}

\* perceive(frame) with a frame of the caller, on an instance that may hold a capture
PerceiveGiven ==
    /\ phase = "idle"
    /\ \E run \in FrameRuns(1, LmOutcomes) :
          LET src == FrameSource("given", cap)
              r == PerceiveOnFrame(FrameW, FrameH, run.detections, run.lmOut,
                                   run.cropOut, run.frameOut)
          IN  /\ (run.cropOut.kind = "empty") = (run.frameOut.kind = "faces")
              /\ cap' = src.cap
              /\ capOpens' = capOpens + src.created
              /\ ret' = r.ret
              /\ calls' = src.calls \o r.calls
              /\ args' = [frame |-> "given", w |-> FrameW, h |-> FrameH,
                          detections |-> run.detections, faces |-> run.faces,
                          lmOut |-> run.lmOut, cropOuts |-> <<run.cropOut>>,
                          frameOut |-> run.frameOut, max_faces |-> 1]
    /\ op' = "perceive"
    /\ phase' = "returned"
    /\ UNCHANGED <<heap, env, use_mediapipe, use_new_api, use_landmarks, face_landmarker,
                   min_confidence, capReleases, afterRelease>>

\* perceive_all_faces(frame) with a frame of the caller and the default max_faces
PerceiveAllGiven ==
    /\ phase = "idle"
    /\ \E run \in FrameRuns(1, LmOutcomes) :
          LET src == FrameSource("given", cap)
              cropOuts == [i \in 1..Len(run.faces) |-> run.cropOut]
              r == PerceiveAllOnFrame(FrameW, FrameH, run.detections, run.lmOut, cropOuts, 5)
          IN  /\ run.frameOut = ClsNotRun
              /\ cap' = src.cap
              /\ capOpens' = capOpens + src.created
              /\ ret' = r.ret
              /\ calls' = src.calls \o r.calls
              /\ args' = [frame |-> "given", w |-> FrameW, h |-> FrameH,
                          detections |-> run.detections, faces |-> run.faces,
                          lmOut |-> run.lmOut, cropOuts |-> cropOuts,
                          frameOut |-> ClsNotRun, max_faces |-> 5]
    /\ op' = "perceive_all_faces"
    /\ phase' = "returned"
    /\ UNCHANGED <<heap, env, use_mediapipe, use_new_api, use_landmarks, face_landmarker,
                   min_confidence, capReleases, afterRelease>>

\* the value and the calls of perceive(frame) for each frame of runs, in order
RECURSIVE BatchOf(_, _)
BatchOf(runs, c) ==
    IF runs = <<>> THEN [items |-> <<>>, calls |-> <<>>, cap |-> c, created |-> 0]
    ELSE LET src == FrameSource("given", c)
             r == PerceiveOnFrame(FrameW, FrameH, runs[1].detections, runs[1].lmOut,
                                  runs[1].cropOut, runs[1].frameOut)
             rest == BatchOf(Tail(runs), src.cap)
         IN  [items |-> <<r.ret>> \o rest.items,
              calls |-> src.calls \o r.calls \o rest.calls,
              cap |-> rest.cap, created |-> src.created + rest.created]

\* batch_perceive(frames): perceive(frame) for every frame, the results in a list
BatchPerceive ==
    /\ phase = "idle"
    /\ \E runs \in SeqsUpTo({run \in FrameRuns(1, {LmFaces(1)}) :
                                (run.cropOut.kind = "empty") = (run.frameOut.kind = "faces")},
                            MaxBatch) :
          LET b == BatchOf(runs, cap)
          IN  /\ cap' = b.cap
              /\ capOpens' = capOpens + b.created
              /\ ret' = [kind |-> "list", items |-> b.items]
              /\ calls' = b.calls
              /\ args' = [frame |-> "given", frames |-> runs]
    /\ op' = "batch_perceive"
    /\ phase' = "returned"
    /\ UNCHANGED <<heap, env, use_mediapipe, use_new_api, use_landmarks, face_landmarker,
                   min_confidence, capReleases, afterRelease>>

NextMix == NextCam \/ PerceiveGiven \/ PerceiveAllGiven \/ BatchPerceive

SpecMix == Init /\ [][NextMix]_vars

(***************************************************************************)
(* Claims about an instance under every operation (under SpecMix).         *)
(***************************************************************************)
\* C22: the detector strategy is fixed at construction: no operation changes
\* use_mediapipe or use_new_api, every detection of every call goes to the detector
\* use_mediapipe selects, and every Percept reports that detector, so that all
\* Percepts of one instance report the same one
DetectorResolvedOnce ==
    /\ [][use_mediapipe' = use_mediapipe /\ use_new_api' = use_new_api]_vars
    /\ [](\A c \in DetectCalls :
              calls[c].fn = (IF use_mediapipe THEN "detect_faces_mediapipe"
                             ELSE "detect_faces_haar"))
    /\ [](\A p \in PerceptsOf(ret) :
              p.metadata.detector = (IF use_mediapipe THEN "mediapipe" ELSE "haar"))

\* C22 witness: a batch of two frames on an instance that selected the primary detector
\* through the legacy API ran that detector twice and gave two Percepts naming it
BatchSameDetectorWitness ==
    /\ Returned("batch_perceive") /\ Len(ret.items) = 2
    /\ use_mediapipe /\ use_new_api # "True"
    /\ Cardinality(DetectCalls) = 2
    /\ \A i \in 1..2 : /\ ret.items[i].kind = "Percept"
                        /\ ret.items[i].metadata.detector = "mediapipe"

\* whether the call was given a frame by the caller
FrameGiven(a) == "frame" \in DOMAIN a

\* C27: a call that is given a frame leaves the instance as it was: the detector and
\* landmark selection, the threshold and the capture handle are unchanged, no capture
\* is created or released and the camera is neither opened nor read; the result of
\* perceive(frame) is the pipeline's result for that frame under these fields alone
FrameCallsStateless ==
    [][(phase = "idle" /\ FrameGiven(args')
        /\ op' \in {"perceive", "perceive_all_faces", "batch_perceive"}) =>
          /\ fields' = fields
          /\ cap' = cap /\ capOpens' = capOpens /\ capReleases' = capReleases
          /\ \A i \in 1..Len(calls') : calls'[i].fn \notin {"open_camera", "read"}
          /\ op' = "perceive" =>
                ret' = PerceiveOnFrame(args'.w, args'.h, args'.detections, args'.lmOut,
                                       args'.cropOuts[1], args'.frameOut).ret
          /\ op' = "batch_perceive" =>
                /\ Len(ret'.items) = Len(args'.frames)
                /\ \A i \in 1..Len(args'.frames) :
                      ret'.items[i] =
                          PerceiveOnFrame(FrameW, FrameH, args'.frames[i].detections,
                                          args'.frames[i].lmOut, args'.frames[i].cropOut,
                                          args'.frames[i].frameOut).ret]_vars

\* C27 witness: after a frame-less call had opened the camera, a call with a frame of
\* the caller returned a Percept and the handle is still the open one
GivenFrameKeepsHandleWitness ==
    /\ Returned("perceive") /\ FrameGiven(args) /\ ret.kind = "Percept"
    /\ cap = "opened" /\ capOpens = 1 /\ capReleases = 0
    /\ \A i \in 1..Len(calls) : calls[i].fn \notin {"open_camera", "read"}

(***************************************************************************)
(* SpecHeld: the caller keeps the Percept of a call.  The Percept, the     *)
(* emotions map and the classifier's result entry are objects in heap.     *)
(***************************************************************************)
\* the objects behind a returned Percept: "emotions = face_data['emotions']" (lines
\* 505-506) and "all_emotions": emotions (line 526) put the map object of the
\* classifier's result entry itself into the metadata, without a copy
Store(percept) ==
    [percept |-> [percept EXCEPT !.metadata.all_emotions = Ref("emotions")],
     emotions |-> percept.metadata.all_emotions,
     result |-> [kind |-> "faces", emotions |-> Ref("emotions")]]

\* the value of the Percept object the caller holds, references followed
Deref(h) ==
    [h.percept EXCEPT !.metadata.all_emotions =
        IF @ = Ref("emotions") THEN h.emotions ELSE @]

\* perceive(frame); a Percept returned is kept by the caller
PerceiveHeld ==
    /\ phase = "idle"
    /\ \E run \in FrameRuns(1, LmOutcomes) :
          LET r == PerceiveOnFrame(FrameW, FrameH, run.detections, run.lmOut,
                                   run.cropOut, run.frameOut)
          IN  /\ (run.cropOut.kind = "empty") = (run.frameOut.kind = "faces")
              /\ ret' = r.ret
              /\ calls' = r.calls
              /\ heap' = IF r.ret.kind = "Percept" THEN Store(r.ret) ELSE NoHeap
              /\ args' = [frame |-> "given", w |-> FrameW, h |-> FrameH,
                          detections |-> run.detections, faces |-> run.faces,
                          lmOut |-> run.lmOut, cropOuts |-> <<run.cropOut>>,
                          frameOut |-> run.frameOut, max_faces |-> 1]
    /\ op' = "perceive"
    /\ phase' = "returned"
    /\ UNCHANGED <<cap, capOpens, capReleases, afterRelease>>
    /\ UNCHANGED <<env, fields>>

\* values a holder may write: one inside and one outside the range of a probability
Written == {0, 150}

\* percept.confidence = value or percept.valence_hint = value: Percept is a plain
\* @dataclass, not frozen, so the assignment succeeds and __post_init__ is not run again
SetAttr ==
    /\ phase = "returned" /\ heap.percept.kind = "Percept"
    /\ \E value \in Written :
          \/ heap' = [heap EXCEPT !.percept.confidence = value]
          \/ heap' = [heap EXCEPT !.percept.valence_hint = value]
    /\ UNCHANGED <<phase, op, args, ret, calls, cap, capOpens, capReleases, afterRelease>>
    /\ UNCHANGED <<env, fields>>

\* emotions['happy'] = value by any holder of the classifier's result entry: the map is
\* a dict, and the entry and the metadata hold the same one
SetItem ==
    /\ phase = "returned" /\ heap.result.kind = "faces"
    /\ \E value \in Written : heap' = [heap EXCEPT !.emotions["happy"] = value]
    /\ UNCHANGED <<phase, op, args, ret, calls, cap, capOpens, capReleases, afterRelease>>
    /\ UNCHANGED <<env, fields>>

NextHeld == PerceiveHeld \/ SetAttr \/ SetItem

SpecHeld == Init /\ [][NextHeld]_vars

\* C24: a returned Percept is immutable and self-contained: the object the caller
\* holds keeps the value it was returned with, whatever is done afterwards, and its
\* metadata holds no object that the classifier's result holds too
PerceptImmutableSelfContained ==
    (phase = "returned" /\ ret.kind = "Percept") =>
        /\ Deref(heap) = ret
        /\ heap.percept.metadata.all_emotions # heap.result.emotions

====
